---- MODULE Spec2Model ----
(***************************************************************************)
(* MockPageTable (crate/memory/src/paging/mock_page_table.rs): a simulated *)
(* page table of PAGE_COUNT entries over a backing store of                *)
(* PAGE_SIZE * PAGE_COUNT bytes, with an optional page fault handler that  *)
(* read/write dispatch to, re-checking the entry after every dispatch.     *)
(*                                                                         *)
(* The table is driven by one thread of control: a harness that calls the  *)
(* public operations, and, while a fault is being dispatched, the handler  *)
(* closure, which receives &mut MockPageTable and may call the same        *)
(* operations.  A panic (assert!, unwrap on None, index out of bounds)     *)
(* ends the run.                                                           *)
(***************************************************************************)
EXTENDS Integers, Sequences, FiniteSets, TLC

PAGE_COUNT == 16
PAGE_SIZE == 4096

\* Bytes stored are 0..MaxByte.
MaxByte == 1
\* At most MaxFaults handler invocations are explored in one run.
MaxFaults == 2
\* At most MaxOps calls of table operations are explored in one run.
MaxOps == 5

\* self.data.len()
DataLen == PAGE_SIZE * PAGE_COUNT

Bytes == 0 .. MaxByte

\* Virtual addresses passed to the operations: offset 1 of page 0, offset 1
\* of page 1, and the first address past the last page.
VirtAddrs == {1, PAGE_SIZE + 1, PAGE_SIZE * PAGE_COUNT}

\* Physical addresses passed to map as target: an unaligned address of
\* frame 1, and the first address past the backing store.
PhysAddrs == {PAGE_SIZE + 1, PAGE_SIZE * PAGE_COUNT}

\* Option<PageFaultHandler>: None, or one of the closures installed.
\* "MapSelf" is the closure of test::page_fault (pt.map(addr, addr));
\* "Any" stands for a closure that calls any operations of the table.
None == "None"
Handlers == {"MapSelf", "Any"}

VARIABLES
    entries,             \* [MockEntry; PAGE_COUNT]
    data,                \* [u8; PAGE_SIZE * PAGE_COUNT]: the bytes written so far
    page_fault_handler,  \* Option<PageFaultHandler>
    stack,               \* the calls in progress: read/write loops and handler calls
    page_fault_count,    \* handler invocations so far (page_fault_count of the test)
    panicked,            \* a panic ended the run
    ops,                 \* calls of table operations so far
    last                 \* the operation that acted last, and its outcome

vars == <<entries, data, page_fault_handler, stack, page_fault_count, panicked, ops, last>>

----------------------------------------------------------------------------
\* usize bit operations, bit by bit.

RECURSIVE BitAnd(_, _)
BitAnd(x, y) ==
    IF x = 0 \/ y = 0 THEN 0
    ELSE (IF x % 2 = 1 /\ y % 2 = 1 THEN 1 ELSE 0) + 2 * BitAnd(x \div 2, y \div 2)

RECURSIVE BitOr(_, _)
BitOr(x, y) ==
    IF x = 0 THEN y
    ELSE IF y = 0 THEN x
    ELSE (IF x % 2 = 1 \/ y % 2 = 1 THEN 1 ELSE 0) + 2 * BitOr(x \div 2, y \div 2)

\* x & !m
RECURSIVE BitAndNot(_, _)
BitAndNot(x, m) ==
    IF x = 0 THEN 0
    ELSE (IF x % 2 = 1 /\ m % 2 = 0 THEN 1 ELSE 0) + 2 * BitAndNot(x \div 2, m \div 2)

----------------------------------------------------------------------------
\* MockEntry::default()
DefaultEntry ==
    [target |-> 0, present |-> FALSE, writable |-> FALSE,
     accessed |-> FALSE, dirty |-> FALSE]

\* The page index taken modulo the number of entries.
Idx_wrapping(addr) == (addr \div PAGE_SIZE) % PAGE_COUNT

\* addr / PAGE_SIZE
Idx(addr) == addr \div PAGE_SIZE

\* The bounds check of self.entries[addr / PAGE_SIZE].
InRange(addr) == Idx(addr) < PAGE_COUNT


InitEntries == [i \in 0 .. PAGE_COUNT - 1 |-> DefaultEntry]

\* What `last` records: the operation, its address, its other argument
\* (map's target, write's byte, set_writable's/set_present's flag), the
\* byte a read returned, the handler invocations of a read/write, whether
\* the operation returned (FALSE: it panicked) and which panic it was:
\* "index" (index out of bounds), "assert" (assert!), "unwrap" (unwrap on
\* None), "range" (Physical memory access out of range).
Outcome(op, addr, val, ret, faults) ==
    [op |-> op, addr |-> addr, val |-> val, ret |-> ret, faults |-> faults,
     ok |-> TRUE, why |-> ""]

\* A read/write call in progress (its loop), or a handler call in progress;
\* `installs` records that the running handler has called set_handler.
AccessFrame(kind, addr, val, faults) ==
    [kind |-> kind, addr |-> addr, val |-> val, faults |-> faults, h |-> None, pc |-> "loop",
     installs |-> FALSE]

HandlerFrame(h, addr) ==
    [kind |-> "handler", addr |-> addr, val |-> 0, faults |-> 0, h |-> h, pc |-> "body",
     installs |-> FALSE]

\* MockPageTable::new(): default entries, uninitialized data, no handler.
Init ==
    /\ entries = InitEntries
    /\ data = << >>
    /\ page_fault_handler = None
    /\ stack = << >>
    /\ page_fault_count = 0
    /\ panicked = FALSE
    /\ ops = 0
    /\ last = Outcome("new", 0, 0, -1, 0)

Top == stack[Len(stack)]
Pop == SubSeq(stack, 1, Len(stack) - 1)

\* The caller of an operation is the harness (no call in progress) or the
\* body of a running handler closure that calls the table.
CanCall ==
    /\ ~panicked
    /\ ops < MaxOps
    /\ \/ stack = << >>
       \/ /\ stack # << >>
          /\ Top.kind = "handler"
          /\ Top.h = "Any"

\* A panic: the run ends, the table is left as the panicking code left it.
Panic(op, addr, val, why) ==
    /\ panicked' = TRUE
    /\ last' = [op |-> op, addr |-> addr, val |-> val, ret |-> -1, faults |-> 0,
                ok |-> FALSE, why |-> why]

----------------------------------------------------------------------------
\* map storing the target as given, its page offset kept.
map_entry_unmasked(e, target) ==
    [e EXCEPT !.present = TRUE, !.writable = TRUE, !.target = target]

\* map: the entry as lines 43-45 leave it.
map_entry(e, target) ==
    [e EXCEPT !.present = TRUE,
              !.writable = TRUE,
              !.target = BitAndNot(target, PAGE_SIZE - 1)]

\* map without its assert!(!entry.present): a present entry is overwritten.
map_body_unchecked(addr, target) ==
    IF ~InRange(addr)
    THEN /\ Panic("map", addr, target, "index")
         /\ UNCHANGED entries
    ELSE /\ entries' = [entries EXCEPT ![Idx(addr)] = map_entry(@, target)]
         /\ last' = Outcome("map", addr, target, -1, 0)
         /\ UNCHANGED panicked

\* map's effect on the table, shared by a direct call and a handler's call.
map_body(addr, target) ==
    IF ~InRange(addr)
    THEN /\ Panic("map", addr, target, "index")
         /\ UNCHANGED entries
    ELSE IF entries[Idx(addr)].present
    THEN /\ Panic("map", addr, target, "assert")
         /\ UNCHANGED entries
    ELSE /\ entries' = [entries EXCEPT ![Idx(addr)] = map_entry(@, target)]
         /\ last' = Outcome("map", addr, target, -1, 0)
         /\ UNCHANGED panicked

map(addr, target) ==
    /\ CanCall
    /\ ops' = ops + 1
    /\ map_body(addr, target)
    /\ UNCHANGED <<data, page_fault_handler, stack, page_fault_count>>

\* unmap resetting the whole entry to its default.
unmap_entry_reset(e) == DefaultEntry

\* unmap: the entry as line 51 leaves it.
unmap_entry(e) == [e EXCEPT !.present = FALSE]

\* unmap without its assert!(entry.present).
unmap_body_unchecked(addr) ==
    IF ~InRange(addr)
    THEN /\ Panic("unmap", addr, 0, "index")
         /\ UNCHANGED entries
    ELSE /\ entries' = [entries EXCEPT ![Idx(addr)] = unmap_entry(@)]
         /\ last' = Outcome("unmap", addr, 0, -1, 0)
         /\ UNCHANGED panicked

\* unmap's effect on the table.
unmap_body(addr) ==
    IF ~InRange(addr)
    THEN /\ Panic("unmap", addr, 0, "index")
         /\ UNCHANGED entries
    ELSE IF ~entries[Idx(addr)].present
    THEN /\ Panic("unmap", addr, 0, "assert")
         /\ UNCHANGED entries
    ELSE /\ entries' = [entries EXCEPT ![Idx(addr)] = unmap_entry(@)]
         /\ last' = Outcome("unmap", addr, 0, -1, 0)
         /\ UNCHANGED panicked

unmap(addr) ==
    /\ CanCall
    /\ ops' = ops + 1
    /\ unmap_body(addr)
    /\ UNCHANGED <<data, page_fault_handler, stack, page_fault_count>>

\* The mutators of impl Entry for MockEntry.
clear_accessed(e) == [e EXCEPT !.accessed = FALSE]
clear_dirty(e) == [e EXCEPT !.dirty = FALSE]
set_writable(e, value) == [e EXCEPT !.writable = value]
set_present(e, value) == [e EXCEPT !.present = value]

EntryOps == {"clear_accessed", "clear_dirty", "set_writable", "set_present"}

ApplyEntryOp(op, e, value) ==
    CASE op = "clear_accessed" -> clear_accessed(e)
      [] op = "clear_dirty" -> clear_dirty(e)
      [] op = "set_writable" -> set_writable(e, value)
      [] op = "set_present" -> set_present(e, value)

\* get_entry(addr).<mutator>(value)
get_entry(addr, op, value) ==
    /\ CanCall
    /\ ops' = ops + 1
    /\ IF ~InRange(addr)
       THEN /\ Panic("get_entry", addr, 0, "index")
            /\ UNCHANGED entries
       ELSE /\ entries' = [entries EXCEPT ![Idx(addr)] = ApplyEntryOp(op, @, value)]
            /\ last' = Outcome(op, addr, IF value THEN 1 ELSE 0, -1, 0)
            /\ UNCHANGED panicked
    /\ UNCHANGED <<data, page_fault_handler, stack, page_fault_count>>

set_handler(h) ==
    /\ CanCall
    /\ ops' = ops + 1
    /\ page_fault_handler' = h
    /\ last' = Outcome("set_handler", 0, 0, -1, 0)
    /\ stack' = IF stack = << >> THEN stack
                ELSE Pop \o <<[Top EXCEPT !.installs = TRUE]>>
    /\ UNCHANGED <<entries, data, page_fault_count, panicked>>

----------------------------------------------------------------------------
\* read looping as write does, until the page is present and writable.
read_faults_unless_writable(e) == ~(e.present /\ e.writable)

\* write looping as read does, until the page is present.
write_faults_unless_present(e) == ~e.present

\* The loop conditions of read (line 90) and write (line 98).
read_faults(e) == ~e.present
write_faults(e) == ~(e.present /\ e.writable)

\* read marking the entry as write does.
read_mark_dirty(e) == [e EXCEPT !.accessed = TRUE, !.dirty = TRUE]

\* The bits read (line 93) and write (lines 101-102) set.
read_mark(e) == [e EXCEPT !.accessed = TRUE]
write_mark(e) == [e EXCEPT !.accessed = TRUE, !.dirty = TRUE]

\* translate without the page offset of the address.
translate_frame_only(es, addr) == BitAndNot(es[Idx(addr)].target, PAGE_SIZE - 1)

\* translate taking the virtual address for the physical one.
translate_identity(es, addr) == addr

\* translate, for an entry that is present (its assert! is in access_done).
translate(es, addr) ==
    BitOr(BitAndNot(es[Idx(addr)].target, PAGE_SIZE - 1), BitAnd(addr, PAGE_SIZE - 1))

\* write assigning to a copy of the byte: the store is left as it was.
store_to_copy(d, pa, b) == d

\* *self.get_data_mut(addr) = b
store(d, pa, b) == [x \in (DOMAIN d) \cup {pa} |-> IF x = pa THEN b ELSE d[x]]

\* *self.get_data_mut(addr): the byte written there, or, for a byte of the
\* uninitialized array that was never written, any byte.
load(d, pa) == IF pa \in DOMAIN d THEN {d[pa]} ELSE Bytes

\* trigger_page_fault with `if let Some(handler)` for unwrap: with no
\* handler installed nothing is dispatched and the access goes on.
trigger_page_fault_if_some(kind, addr, val, faults, base) ==
    IF page_fault_handler = None
    THEN LET marked == [entries EXCEPT ![Idx(addr)] =
                          [@ EXCEPT !.accessed = TRUE, !.dirty = (kind = "write") \/ @]]
         IN  /\ entries' = marked
             /\ stack' = base
             /\ last' = Outcome(kind, addr, val, -1, faults)
             /\ UNCHANGED <<data, page_fault_handler, page_fault_count, panicked>>
    ELSE /\ page_fault_count < MaxFaults
         /\ page_fault_handler' = None
         /\ stack' = base \o <<AccessFrame(kind, addr, val, faults + 1),
                               HandlerFrame(page_fault_handler, addr)>>
         /\ page_fault_count' = page_fault_count + 1
         /\ last' = Outcome("fault", addr, val, -1, faults + 1)
         /\ UNCHANGED <<entries, data, panicked>>

\* trigger_page_fault calling the handler without taking it out of the
\* table.
trigger_page_fault_in_place(kind, addr, val, faults, base) ==
    IF page_fault_handler = None
    THEN /\ Panic(kind, addr, val, "unwrap")
         /\ UNCHANGED <<entries, data, page_fault_handler, stack, page_fault_count>>
    ELSE /\ page_fault_count < MaxFaults
         /\ UNCHANGED page_fault_handler
         /\ stack' = base \o <<AccessFrame(kind, addr, val, faults + 1),
                               HandlerFrame(page_fault_handler, addr)>>
         /\ page_fault_count' = page_fault_count + 1
         /\ last' = Outcome("fault", addr, val, -1, faults + 1)
         /\ UNCHANGED <<entries, data, panicked>>

\* trigger_page_fault, up to the call of the handler: the handler is taken
\* out of the table (unwrap panics on None) and called with the address.
trigger_page_fault(kind, addr, val, faults, base) ==
    IF page_fault_handler = None
    THEN /\ Panic(kind, addr, val, "unwrap")
         /\ UNCHANGED <<entries, data, page_fault_handler, stack, page_fault_count>>
    ELSE /\ page_fault_count < MaxFaults
         /\ page_fault_handler' = None
         /\ stack' = base \o <<AccessFrame(kind, addr, val, faults + 1),
                               HandlerFrame(page_fault_handler, addr)>>
         /\ page_fault_count' = page_fault_count + 1
         /\ last' = Outcome("fault", addr, val, -1, faults + 1)
         /\ UNCHANGED <<entries, data, panicked>>

\* read/write after the loop, with the physical address wrapped into the
\* backing store in place of the range assert!.
access_done_wrapping(kind, addr, val, faults, base) ==
    LET marked == [entries EXCEPT ![Idx(addr)] =
                      IF kind = "read" THEN read_mark(@) ELSE write_mark(@)]
        pa == translate(marked, addr) % DataLen
    IN  /\ entries' = marked
        /\ UNCHANGED <<page_fault_handler, page_fault_count>>
        /\ IF ~marked[Idx(addr)].present
           THEN /\ Panic(kind, addr, val, "assert")
                /\ UNCHANGED <<data, stack>>
           ELSE /\ stack' = base
                /\ UNCHANGED panicked
                /\ IF kind = "read"
                   THEN /\ \E r \in load(data, pa) :
                              last' = Outcome("read", addr, val, r, faults)
                        /\ UNCHANGED data
                   ELSE /\ data' = store(data, pa, val)
                        /\ last' = Outcome("write", addr, val, -1, faults)

\* read/write after the loop: mark the entry, translate, check the range,
\* access the byte.
access_done(kind, addr, val, faults, base) ==
    LET marked == [entries EXCEPT ![Idx(addr)] =
                      IF kind = "read" THEN read_mark(@) ELSE write_mark(@)]
        pa == translate(marked, addr)
    IN  /\ entries' = marked
        /\ UNCHANGED <<page_fault_handler, page_fault_count>>
        /\ IF ~marked[Idx(addr)].present
           THEN /\ Panic(kind, addr, val, "assert")
                /\ UNCHANGED <<data, stack>>
           ELSE IF ~(pa < DataLen)
           THEN /\ Panic(kind, addr, val, "range")
                /\ UNCHANGED <<data, stack>>
           ELSE /\ stack' = base
                /\ UNCHANGED panicked
                /\ IF kind = "read"
                   THEN /\ \E r \in load(data, pa) :
                              last' = Outcome("read", addr, val, r, faults)
                        /\ UNCHANGED data
                   ELSE /\ data' = store(data, pa, val)
                        /\ last' = Outcome("write", addr, val, -1, faults)

\* read/write with `if` for `while`: the condition is not checked again
\* after the handler returned.
access_loop_if(kind, addr, val, faults, base) ==
    IF ~InRange(addr)
    THEN /\ Panic(kind, addr, val, "index")
         /\ UNCHANGED <<entries, data, page_fault_handler, stack, page_fault_count>>
    ELSE IF /\ faults = 0
            /\ (IF kind = "read" THEN read_faults(entries[Idx(addr)])
                                 ELSE write_faults(entries[Idx(addr)]))
    THEN trigger_page_fault(kind, addr, val, faults, base)
    ELSE access_done(kind, addr, val, faults, base)

\* read/write giving up: a condition still unresolved after the handler
\* returned is a panic.
access_loop_give_up(kind, addr, val, faults, base) ==
    IF ~InRange(addr)
    THEN /\ Panic(kind, addr, val, "index")
         /\ UNCHANGED <<entries, data, page_fault_handler, stack, page_fault_count>>
    ELSE IF (IF kind = "read" THEN read_faults(entries[Idx(addr)])
                              ELSE write_faults(entries[Idx(addr)]))
    THEN IF faults >= 1
         THEN /\ Panic(kind, addr, val, "assert")
              /\ UNCHANGED <<entries, data, page_fault_handler, stack, page_fault_count>>
         ELSE trigger_page_fault(kind, addr, val, faults, base)
    ELSE access_done(kind, addr, val, faults, base)

\* One evaluation of the while condition of read/write and what follows it:
\* a dispatch to the handler, or the rest of the function.
access_loop(kind, addr, val, faults, base) ==
    IF ~InRange(addr)
    THEN /\ Panic(kind, addr, val, "index")
         /\ UNCHANGED <<entries, data, page_fault_handler, stack, page_fault_count>>
    ELSE IF (IF kind = "read" THEN read_faults(entries[Idx(addr)])
                              ELSE write_faults(entries[Idx(addr)]))
    THEN trigger_page_fault(kind, addr, val, faults, base)
    ELSE access_done(kind, addr, val, faults, base)

\* A call of read: the first evaluation of its loop.
read(addr) ==
    /\ CanCall
    /\ ops' = ops + 1
    /\ access_loop("read", addr, 0, 0, stack)

\* A call of write: the first evaluation of its loop.
write(addr, b) ==
    /\ CanCall
    /\ ops' = ops + 1
    /\ access_loop("write", addr, b, 0, stack)

\* The body of the closure of test::page_fault: pt.map(addr, addr).
handler_map_self ==
    /\ ~panicked
    /\ stack # << >>
    /\ Top.kind = "handler"
    /\ Top.h = "MapSelf"
    /\ Top.pc = "body"
    /\ map_body(Top.addr, Top.addr)
    /\ stack' = IF panicked' THEN stack ELSE Pop \o <<[Top EXCEPT !.pc = "ret"]>>
    /\ UNCHANGED <<data, page_fault_handler, page_fault_count, ops>>

\* The handler returns and is put back only into an empty slot: a handler
\* installed during the call is kept.
handler_return_keep ==
    /\ ~panicked
    /\ stack # << >>
    /\ Top.kind = "handler"
    /\ Top.h = "MapSelf" => Top.pc = "ret"
    /\ page_fault_handler' = IF page_fault_handler = None THEN Top.h
                             ELSE page_fault_handler
    /\ stack' = Pop
    /\ last' = Outcome("return", Top.addr, 0, -1, 0)
    /\ UNCHANGED <<entries, data, page_fault_count, panicked, ops>>

\* The handler returns: trigger_page_fault puts it back (line 76).
handler_return ==
    /\ ~panicked
    /\ stack # << >>
    /\ Top.kind = "handler"
    /\ Top.h = "MapSelf" => Top.pc = "ret"
    /\ page_fault_handler' = Top.h
    /\ stack' = Pop
    /\ last' = Outcome("return", Top.addr, 0, -1, 0)
    /\ UNCHANGED <<entries, data, page_fault_count, panicked, ops>>

\* Back in the loop of read/write after trigger_page_fault returned.
access_retry ==
    /\ ~panicked
    /\ stack # << >>
    /\ Top.kind \in {"read", "write"}
    /\ access_loop(Top.kind, Top.addr, Top.val, Top.faults, Pop)
    /\ UNCHANGED ops

Next ==
    \/ \E a \in VirtAddrs, t \in PhysAddrs : map(a, t)
    \/ \E a \in VirtAddrs : unmap(a)
    \/ \E a \in VirtAddrs, op \in EntryOps, v \in BOOLEAN : get_entry(a, op, v)
    \/ \E h \in Handlers : set_handler(h)
    \/ \E a \in VirtAddrs : read(a)
    \/ \E a \in VirtAddrs, b \in Bytes : write(a, b)
    \/ handler_map_self
    \/ handler_return
    \/ access_retry

Spec == Init /\ [][Next]_vars

----------------------------------------------------------------------------
\* Steps, as the properties below name them.

\* A step of the table (not a stuttering step).
Acted == vars' # vars

\* The page of an address, and an address with its page offset cleared.
PageOf(addr) == addr \div PAGE_SIZE
PageBase(addr) == addr - (addr % PAGE_SIZE)

\* The step is a call of map(a, t), by the harness or by a handler.
MapStep(a, t) == Acted /\ last'.op = "map" /\ last'.addr = a /\ last'.val = t

\* The step is a call of unmap(a).
UnmapStep(a) == Acted /\ last'.op = "unmap" /\ last'.addr = a

\* The step is a call of read(a) / write(a, _): it returns, panics or
\* dispatches its first fault.
CallOf(kind, a) ==
    /\ ops' = ops + 1
    /\ last'.addr = a
    /\ \/ last'.op = kind
       \/ /\ last'.op = "fault"
          /\ stack'[Len(stack') - 1].kind = kind

\* The step re-checks the loop condition of a read/write of a after a
\* handler returned.
RetryOf(kind, a) ==
    /\ Acted
    /\ ~panicked
    /\ stack # << >>
    /\ Top.kind = kind
    /\ Top.addr = a

\* The step evaluates the loop condition of a read/write of a.
LoopEval(kind, a) == CallOf(kind, a) \/ RetryOf(kind, a)

\* The handler invocations of the read/write before this evaluation.
FaultsBefore == IF ops' = ops + 1 THEN 0 ELSE Top.faults

\* The step dispatches a fault of a read/write of a to the handler.
Dispatches(kind, a) ==
    /\ last'.op = "fault"
    /\ page_fault_count' = page_fault_count + 1
    /\ Len(stack') >= 2
    /\ stack'[Len(stack')].kind = "handler"
    /\ stack'[Len(stack')].h = page_fault_handler
    /\ stack'[Len(stack')].addr = a
    /\ stack'[Len(stack') - 1].kind = kind
    /\ stack'[Len(stack') - 1].faults = FaultsBefore + 1

\* The step is a read/write of a returning to its caller.
Returns(kind, a) == Acted /\ last'.op = kind /\ last'.addr = a /\ last'.ok

Accesses == {"read", "write"}
InRangeAddrs == {a \in VirtAddrs : InRange(a)}

----------------------------------------------------------------------------
\* C1: a call of map(A, T) with A in range and A's page not present returns
\* and leaves the entry of A's page present and writable, its target T with
\* the page-offset bits cleared, whatever preceded the call.
C1_MapSetsEntry ==
    [][\A a \in InRangeAddrs, t \in PhysAddrs \cup VirtAddrs :
          (MapStep(a, t) /\ ~entries[PageOf(a)].present)
              => /\ last'.ok
                 /\ ~panicked'
                 /\ entries'[PageOf(a)].present
                 /\ entries'[PageOf(a)].writable
                 /\ entries'[PageOf(a)].target = PageBase(t)]_vars

\* A map with an unaligned target has returned on a page that was written
\* and unmapped before.
C1_Witness ==
    /\ last.op = "map"
    /\ last.ok
    /\ last.val % PAGE_SIZE # 0
    /\ entries[PageOf(last.addr)].target = PageBase(last.val)
    /\ entries[PageOf(last.addr)].dirty

----------------------------------------------------------------------------
\* C2: write(A, B) has returned and read(A) is called next: the read
\* returns, without a fault, and returns B.
C2_WriteThenRead ==
    [][\A a \in InRangeAddrs :
          (last.op = "write" /\ last.ok /\ last.addr = a /\ CallOf("read", a))
              => /\ last'.op = "read"
                 /\ last'.ok
                 /\ last'.faults = 0
                 /\ last'.ret = last.val]_vars

\* A write of a nonzero byte has returned and its caller can go on to read.
C2_Witness ==
    /\ last.op = "write"
    /\ last.ok
    /\ last.val = MaxByte
    /\ ~panicked
    /\ ops < MaxOps
    /\ entries[PageOf(last.addr)].target < DataLen
    /\ data[translate(entries, last.addr)] = last.val

----------------------------------------------------------------------------
\* C3: two distinct pages P and Q are present with the same target;
\* write(P + o, B) has returned and read(Q + o) is called next: the read
\* returns B.
C3_Aliasing ==
    [][\A a \in InRangeAddrs, q \in InRangeAddrs :
          (/\ last.op = "write" /\ last.ok /\ last.addr = a
           /\ PageOf(q) # PageOf(a)
           /\ q % PAGE_SIZE = a % PAGE_SIZE
           /\ entries[PageOf(q)].present
           /\ entries[PageOf(q)].target = entries[PageOf(a)].target
           /\ CallOf("read", q))
              => /\ last'.op = "read"
                 /\ last'.ok
                 /\ last'.ret = last.val]_vars

\* A write through one of two pages sharing a frame has returned and its
\* caller can go on to read through the other page.
C3_Witness ==
    /\ last.op = "write"
    /\ last.ok
    /\ last.val = MaxByte
    /\ ~panicked
    /\ ops < MaxOps
    /\ \E q \in InRangeAddrs :
          /\ PageOf(q) # PageOf(last.addr)
          /\ q % PAGE_SIZE = last.addr % PAGE_SIZE
          /\ entries[PageOf(q)].present
          /\ entries[PageOf(q)].target = entries[PageOf(last.addr)].target

----------------------------------------------------------------------------
\* C4: after every map that returned, also one that follows a read/write
\* and an unmap of the same page, the entry of the page has accessed =
\* false and dirty = false.
C4_FreshMappingClean ==
    (last.op = "map" /\ last.ok)
        => /\ ~entries[PageOf(last.addr)].accessed
           /\ ~entries[PageOf(last.addr)].dirty

----------------------------------------------------------------------------
\* C5: a read(A) that returns leaves the entry of A's page with accessed =
\* true and its dirty bit as it was; a write(A, B) that returns leaves the
\* entry with accessed = true and dirty = true.
C5_AccessedDirty ==
    [][\A a \in InRangeAddrs :
          /\ Returns("read", a)
                => /\ entries'[PageOf(a)].accessed
                   /\ entries'[PageOf(a)].dirty = entries[PageOf(a)].dirty
          /\ Returns("write", a)
                => /\ entries'[PageOf(a)].accessed
                   /\ entries'[PageOf(a)].dirty]_vars

\* A read has returned, after a fault, on a page that is not dirty.
C5_Witness ==
    /\ last.op = "read"
    /\ last.ok
    /\ last.faults >= 1
    /\ entries[PageOf(last.addr)].accessed
    /\ ~entries[PageOf(last.addr)].dirty

----------------------------------------------------------------------------
\* C6: a read of a present page, and a write to a page that is present and
\* writable, do not invoke the fault handler: whenever read/write evaluates
\* its loop condition on such a page, the invocation count is unchanged, no
\* handler call starts and the handler stays installed.
C6_FaultSuppression ==
    [][\A a \in InRangeAddrs :
          /\ (LoopEval("read", a) /\ entries[PageOf(a)].present)
                => /\ page_fault_count' = page_fault_count
                   /\ page_fault_handler' = page_fault_handler
                   /\ last'.op = "read"
                   /\ last'.why # "unwrap"
          /\ (LoopEval("write", a)
                 /\ entries[PageOf(a)].present /\ entries[PageOf(a)].writable)
                => /\ page_fault_count' = page_fault_count
                   /\ page_fault_handler' = page_fault_handler
                   /\ last'.op = "write"
                   /\ last'.why # "unwrap"]_vars

\* With a handler installed that was invoked before, a read of a present,
\* read-only page has returned without a fault.
C6_Witness ==
    /\ last.op = "read"
    /\ last.ok
    /\ last.faults = 0
    /\ page_fault_handler # None
    /\ page_fault_count >= 1
    /\ ~entries[PageOf(last.addr)].writable

----------------------------------------------------------------------------
\* C7: whenever read/write evaluates its loop condition with a handler
\* installed, it invokes the handler once if the condition is unresolved
\* (page not present; or not present-and-writable for a write), and goes on
\* to the access, without invoking it, if the condition is resolved.  So a
\* read/write that returns after k invocations found the condition
\* unresolved k times and then resolved: the page is present (and writable
\* for a write).  With the handler of test::page_fault (map(addr, addr)),
\* k is 0 or 1.
C7_FaultPerUnresolvedCheck ==
    [][\A a \in InRangeAddrs, kind \in Accesses :
          LET e == entries[PageOf(a)]
              unresolved == IF kind = "read" THEN ~e.present
                            ELSE ~e.present \/ ~e.writable
          IN  /\ (LoopEval(kind, a) /\ unresolved /\ page_fault_handler # None)
                    => Dispatches(kind, a)
              /\ (LoopEval(kind, a) /\ ~unresolved)
                    => /\ page_fault_count' = page_fault_count
                       /\ last'.op = kind
                       /\ last'.ok => last'.faults = FaultsBefore
              /\ Returns(kind, a)
                    => /\ ~unresolved
                       /\ entries'[PageOf(a)].present
                       /\ kind = "write" => entries'[PageOf(a)].writable
                       /\ (last'.faults >= 1 /\ page_fault_handler' = "MapSelf")
                             => last'.faults = 1]_vars

\* A write has returned after two invocations of the handler: the second
\* one repaired the page.
C7_Witness ==
    /\ last.op = "write"
    /\ last.ok
    /\ last.faults = 2
    /\ page_fault_handler = "Any"
    /\ entries[PageOf(last.addr)].present
    /\ entries[PageOf(last.addr)].writable

----------------------------------------------------------------------------
\* C8: on a page that is present with writable = false, with a handler
\* installed, a call of write(A, B) invokes the handler before it stores or
\* marks anything, and a call of read(A) does not invoke the handler.
C8_WritableCondition ==
    [][\A a \in InRangeAddrs :
          LET e == entries[PageOf(a)]
          IN  (e.present /\ ~e.writable /\ page_fault_handler # None)
                 => /\ CallOf("write", a)
                       => /\ Dispatches("write", a)
                          /\ data' = data
                          /\ entries' = entries
                    /\ CallOf("read", a)
                       => /\ last'.op = "read"
                          /\ page_fault_count' = page_fault_count
                          /\ stack' = stack]_vars

\* A write to a present page that set_writable(false) made read-only has
\* invoked the handler: nothing is stored and the page is not marked.
C8_Witness ==
    /\ last.op = "fault"
    /\ Len(stack) >= 2
    /\ stack[Len(stack) - 1].kind = "write"
    /\ entries[PageOf(last.addr)].present
    /\ ~entries[PageOf(last.addr)].writable
    /\ ~entries[PageOf(last.addr)].dirty
    /\ entries[PageOf(last.addr)].target = PAGE_SIZE
    /\ data = << >>

----------------------------------------------------------------------------
\* C9: a call of map(A, T) on a page that is present panics: it does not
\* return and it changes no entry, no byte and not the handler.  This holds
\* for a call by the harness and for a call by a handler, such as the
\* handler of test::page_fault invoked for a write to a present, read-only
\* page.
C9_MapPresentFatal ==
    [][\A a \in InRangeAddrs, t \in PhysAddrs \cup VirtAddrs :
          (MapStep(a, t) /\ entries[PageOf(a)].present)
              => /\ panicked'
                 /\ ~last'.ok
                 /\ last'.why = "assert"
                 /\ entries' = entries
                 /\ data' = data
                 /\ page_fault_handler' = page_fault_handler]_vars

\* The handler of test::page_fault, invoked for a write to a present,
\* read-only page, has called map on that page: the run has panicked inside
\* the handler and the entry is as it was.
C9_Witness ==
    /\ panicked
    /\ last.op = "map"
    /\ last.why = "assert"
    /\ Len(stack) >= 2
    /\ stack[Len(stack)].kind = "handler"
    /\ stack[Len(stack)].h = "MapSelf"
    /\ stack[Len(stack) - 1].kind = "write"
    /\ entries[PageOf(last.addr)].present
    /\ ~entries[PageOf(last.addr)].writable
    /\ entries[PageOf(last.addr)].target = PAGE_SIZE

----------------------------------------------------------------------------
\* C10: a call of unmap(A) on a page that is not present panics and leaves
\* the table as it was, whatever made the page absent: it was never
\* mapped, it was unmapped, or set_present(false) was called on its entry.
C10_UnmapAbsentFatal ==
    [][\A a \in InRangeAddrs :
          (UnmapStep(a) /\ ~entries[PageOf(a)].present)
              => /\ panicked'
                 /\ ~last'.ok
                 /\ last'.why = "assert"
                 /\ entries' = entries]_vars

\* unmap has panicked on a page that was mapped and written before and is
\* absent now.
C10_Witness ==
    /\ panicked
    /\ last.op = "unmap"
    /\ last.why = "assert"
    /\ ~entries[PageOf(last.addr)].present
    /\ entries[PageOf(last.addr)].writable
    /\ entries[PageOf(last.addr)].dirty

----------------------------------------------------------------------------
\* C11: a call of unmap(A) on a present page returns and changes only the
\* present bit of A's entry, to false: the entry's target, writable,
\* accessed and dirty, every other entry, the backing store and the
\* installed handler are unchanged.
C11_UnmapClearsPresentOnly ==
    [][\A a \in InRangeAddrs :
          (UnmapStep(a) /\ entries[PageOf(a)].present)
              => /\ last'.ok
                 /\ ~panicked'
                 /\ entries' = [entries EXCEPT ![PageOf(a)].present = FALSE]
                 /\ data' = data
                 /\ page_fault_handler' = page_fault_handler]_vars

\* unmap has returned on a page that was written: the entry keeps its
\* target and its writable, accessed and dirty bits, and the store its byte.
C11_Witness ==
    /\ last.op = "unmap"
    /\ last.ok
    /\ ~entries[PageOf(last.addr)].present
    /\ entries[PageOf(last.addr)].target = PAGE_SIZE
    /\ entries[PageOf(last.addr)].writable
    /\ entries[PageOf(last.addr)].accessed
    /\ entries[PageOf(last.addr)].dirty
    /\ data # << >>

----------------------------------------------------------------------------
\* C12: whenever read/write finds its loop condition unresolved (page not
\* present; or not present-and-writable for a write) while no handler is
\* installed, it panics: it does not return, and the backing store and
\* every entry, the accessed and dirty bits included, are as they were.
C12_FaultWithoutHandlerFatal ==
    [][\A a \in InRangeAddrs, kind \in Accesses :
          LET e == entries[PageOf(a)]
              unresolved == IF kind = "read" THEN ~e.present
                            ELSE ~e.present \/ ~e.writable
          IN  (LoopEval(kind, a) /\ unresolved /\ page_fault_handler = None)
                 => /\ panicked'
                    /\ ~last'.ok
                    /\ last'.op = kind
                    /\ last'.why = "unwrap"
                    /\ data' = data
                    /\ entries' = entries
                    /\ stack' = stack
                    /\ page_fault_count' = page_fault_count]_vars

\* A write to a present, read-only page with no handler installed has
\* panicked: the page is not marked and nothing is stored.
C12_Witness ==
    /\ panicked
    /\ last.op = "write"
    /\ last.why = "unwrap"
    /\ stack = << >>
    /\ page_fault_handler = None
    /\ entries[PageOf(last.addr)].present
    /\ ~entries[PageOf(last.addr)].writable
    /\ ~entries[PageOf(last.addr)].accessed
    /\ data = << >>

----------------------------------------------------------------------------
\* The step dispatches a fault, and the step returns from a handler.
DispatchStep == Acted /\ last'.op = "fault"
ReturnStep == Acted /\ last'.op = "return"

\* The handler calls in progress, innermost last.
HandlerCalls(st) == {i \in 1 .. Len(st) : st[i].kind = "handler"}

\* What C13 says of a dispatch and of the return from it: the handler is
\* taken out of the table and called; a map or a get_entry mutator called
\* by the running handler acts as it does elsewhere; the return puts the
\* handler of the dispatch back.
DispatchProtocol ==
    /\ DispatchStep
          => /\ page_fault_handler # None
             /\ page_fault_handler' = None
             /\ stack'[Len(stack')].kind = "handler"
             /\ stack'[Len(stack')].h = page_fault_handler
    /\ \A a \in InRangeAddrs, t \in PhysAddrs \cup VirtAddrs :
          (stack # << >> /\ Top.kind = "handler" /\ MapStep(a, t)
              /\ ~entries[PageOf(a)].present)
             => /\ last'.ok
                /\ entries'[PageOf(a)].present
                /\ entries'[PageOf(a)].target = PageBase(t)
    /\ (stack # << >> /\ Top.kind = "handler" /\ Acted /\ last'.op \in EntryOps)
          => /\ last'.ok
             /\ InRange(last'.addr)
    /\ ReturnStep
          => /\ stack # << >>
             /\ Top.kind = "handler"
             /\ page_fault_handler' = Top.h
             /\ page_fault_handler' # None
             /\ stack' = Pop

\* C13, as claimed: for every dispatch the handler is removed before it is
\* invoked, the handler slot is empty for the whole duration of the handler
\* call, the handler may call map and get_entry during the call, and the
\* return installs the handler of the dispatch again.
C13_SlotEmptyDuringCall ==
    [][/\ DispatchProtocol
       /\ HandlerCalls(stack') # {} => page_fault_handler' = None]_vars

\* C13, amended: the slot is empty for the duration of the handler call
\* unless the handler itself calls set_handler during the call.
C13_HandlerOwnership ==
    [][/\ DispatchProtocol
       /\ \A i \in HandlerCalls(stack') :
             ~stack'[i].installs => page_fault_handler' = None]_vars

\* A running handler that has called no set_handler has mapped the page of
\* the fault and called set_writable on its entry; the slot is empty.
C13_Witness ==
    /\ ~panicked
    /\ Len(stack) = 2
    /\ Top.kind = "handler"
    /\ Top.h = "Any"
    /\ ~Top.installs
    /\ page_fault_handler = None
    /\ last.op = "set_writable"
    /\ last.addr = Top.addr
    /\ entries[PageOf(Top.addr)].present
    /\ stack[1].kind = "read"

----------------------------------------------------------------------------
\* The loop condition of a read/write of a is resolved: the access follows.
Resolved(kind, a) ==
    /\ entries[PageOf(a)].present
    /\ kind = "write" => entries[PageOf(a)].writable

\* The physical address of a through its entry: the frame plus the offset.
PhysOf(a) == PageBase(entries[PageOf(a)].target) + (a % PAGE_SIZE)

\* C14: map accepts a target outside the backing store, and a read/write
\* through a present entry whose physical address is at or past
\* PAGE_COUNT * PAGE_SIZE panics: it does not return, and no byte of the
\* backing store is changed (the address is not wrapped into the store).
C14_PhysicalRangeFatal ==
    [][/\ \A a \in InRangeAddrs, t \in PhysAddrs :
             (MapStep(a, t) /\ ~entries[PageOf(a)].present /\ t >= PAGE_COUNT * PAGE_SIZE)
                => /\ last'.ok
                   /\ entries'[PageOf(a)].target = PageBase(t)
       /\ \A a \in InRangeAddrs, kind \in Accesses :
             (LoopEval(kind, a) /\ Resolved(kind, a)
                 /\ PhysOf(a) >= PAGE_COUNT * PAGE_SIZE)
                => /\ panicked'
                   /\ ~last'.ok
                   /\ last'.op = kind
                   /\ last'.why = "range"
                   /\ data' = data]_vars

\* A write through an entry whose target is past the store has panicked,
\* with bytes in the store that it left alone.
C14_Witness ==
    /\ panicked
    /\ last.op = "write"
    /\ last.why = "range"
    /\ entries[PageOf(last.addr)].present
    /\ entries[PageOf(last.addr)].target = PAGE_COUNT * PAGE_SIZE
    /\ data # << >>

----------------------------------------------------------------------------
\* C15: whenever a read/write re-checks its loop condition after a handler
\* returned and finds it still unresolved, however many invocations went
\* before, it does not return and does not panic: it invokes the handler
\* again, and the table is otherwise as it was.
C15_NoTimeout ==
    [][\A a \in InRangeAddrs, kind \in Accesses :
          (RetryOf(kind, a) /\ ~Resolved(kind, a))
              => /\ ~panicked'
                 /\ Dispatches(kind, a)
                 /\ stack'[Len(stack')].h = page_fault_handler
                 /\ page_fault_handler # None
                 /\ Len(stack') = Len(stack) + 1
                 /\ entries' = entries
                 /\ data' = data]_vars

\* A read whose handler repaired nothing has invoked it a second time: no
\* entry was touched.
C15_Witness ==
    /\ ~panicked
    /\ last.op = "fault"
    /\ last.faults >= 2
    /\ stack[Len(stack) - 1].kind = "read"
    /\ entries = InitEntries

----------------------------------------------------------------------------
\* C16: a call of map, unmap, get_entry, read or write with a virtual
\* address at or past PAGE_COUNT * PAGE_SIZE (page number >= PAGE_COUNT)
\* panics, and changes no entry and no byte of the backing store.
C16_VirtualRangeFatal ==
    [][\A a \in VirtAddrs :
          (/\ a >= PAGE_COUNT * PAGE_SIZE
           /\ Acted
           /\ ops' = ops + 1
           /\ last'.op # "set_handler"
           /\ last'.addr = a)
              => /\ panicked'
                 /\ ~last'.ok
                 /\ last'.why = "index"
                 /\ last'.op \in {"map", "unmap", "get_entry", "read", "write"}
                 /\ entries' = entries
                 /\ data' = data
                 /\ stack' = stack]_vars

\* A write past the last page, called by a running handler on a table with
\* a mapped page, has panicked.
C16_Witness ==
    /\ panicked
    /\ last.op = "write"
    /\ last.why = "index"
    /\ last.addr >= PAGE_COUNT * PAGE_SIZE
    /\ stack # << >>
    /\ \E i \in DOMAIN entries : entries[i].present

----------------------------------------------------------------------------
\* C17: in every reachable state the target of every entry is a multiple
\* of PAGE_SIZE.
C17_TargetAligned ==
    \A i \in DOMAIN entries : entries[i].target % PAGE_SIZE = 0

\* After a fault was dispatched, one entry holds the frame of an unaligned
\* target and another the frame past the store.
C17_Witness ==
    /\ page_fault_count >= 1
    /\ \E i, j \in DOMAIN entries :
          /\ entries[i].target = PAGE_SIZE
          /\ entries[j].target = PAGE_COUNT * PAGE_SIZE
    /\ last.op = "map"
    /\ last.val % PAGE_SIZE # 0

----------------------------------------------------------------------------
\* C18: a write(A, B) that finds its loop condition resolved, with the
\* physical address P = (target of A's page) + (A mod PAGE_SIZE) inside the
\* store, returns, assigns B to the byte at P and to no other byte, and
\* changes no entry field but accessed and dirty of A's page, which it
\* sets.  A read(A) in the same situation returns the byte at P (any byte
\* if P was never written), changes no byte, and changes no entry field
\* but accessed of A's page, which it sets.
C18_AccessFrame ==
    [][\A a \in InRangeAddrs :
          LET p == PhysOf(a)
              inside == p < PAGE_COUNT * PAGE_SIZE
          IN  /\ (LoopEval("write", a) /\ Resolved("write", a) /\ inside)
                    => /\ last'.ok
                       /\ last'.op = "write"
                       /\ DOMAIN data' = (DOMAIN data) \cup {p}
                       /\ data'[p] = last'.val
                       /\ \A x \in (DOMAIN data) \ {p} : data'[x] = data[x]
                       /\ entries' = [entries EXCEPT ![PageOf(a)].accessed = TRUE,
                                                     ![PageOf(a)].dirty = TRUE]
              /\ (LoopEval("read", a) /\ Resolved("read", a) /\ inside)
                    => /\ last'.ok
                       /\ last'.op = "read"
                       /\ last'.ret \in Bytes
                       /\ p \in DOMAIN data => last'.ret = data[p]
                       /\ data' = data
                       /\ entries' = [entries EXCEPT ![PageOf(a)].accessed = TRUE]]_vars

\* A write without a fault has returned: its byte is in the store at the
\* frame plus the offset, beside the byte of an earlier write elsewhere.
C18_Witness ==
    /\ last.op = "write"
    /\ last.ok
    /\ last.faults = 0
    /\ PhysOf(last.addr) = PAGE_SIZE + 1
    /\ data[PhysOf(last.addr)] = last.val
    /\ Cardinality(DOMAIN data) = 2
    /\ \E x \in DOMAIN data : data[x] # last.val

----------------------------------------------------------------------------
\* A handler is running and the step is its call of read/write of a.
NestedCall(kind, a) ==
    /\ stack # << >>
    /\ Top.kind = "handler"
    /\ CallOf(kind, a)

\* The nested read/write panics on the empty handler slot.
NestedFatal(kind) ==
    /\ panicked'
    /\ ~last'.ok
    /\ last'.op = kind
    /\ last'.why = "unwrap"
    /\ entries' = entries
    /\ data' = data

\* The nested read/write returns to the handler.
NestedReturns(kind) ==
    /\ ~panicked'
    /\ last'.ok
    /\ last'.op = kind
    /\ last'.faults = 0
    /\ stack' = stack
    /\ page_fault_handler' = page_fault_handler

\* C19, as claimed: a read/write called by a running handler that faults
\* finds no handler installed and panics; one that does not fault returns.
C19_NestedFaultFatal ==
    [][\A a \in InRangeAddrs, kind \in Accesses :
          /\ (NestedCall(kind, a) /\ ~Resolved(kind, a)) => NestedFatal(kind)
          /\ (NestedCall(kind, a) /\ Resolved(kind, a)
                 /\ PhysOf(a) < PAGE_COUNT * PAGE_SIZE) => NestedReturns(kind)]_vars

\* C19, amended: the nested fault is fatal if the running handler has not
\* called set_handler during its call.
C19_NestedFaultFatalUnlessInstalled ==
    [][\A a \in InRangeAddrs, kind \in Accesses :
          /\ (NestedCall(kind, a) /\ ~Resolved(kind, a) /\ ~Top.installs)
                => NestedFatal(kind)
          /\ (NestedCall(kind, a) /\ Resolved(kind, a)
                 /\ PhysOf(a) < PAGE_COUNT * PAGE_SIZE) => NestedReturns(kind)]_vars

\* A handler invoked for a read of one page, having called no set_handler,
\* has called write on another page that is not mapped: the run has
\* panicked on the empty slot.
C19_Witness ==
    /\ panicked
    /\ last.op = "write"
    /\ last.why = "unwrap"
    /\ Len(stack) = 2
    /\ Top.kind = "handler"
    /\ ~Top.installs
    /\ stack[1].kind = "read"
    /\ PageOf(last.addr) # PageOf(Top.addr)
    /\ page_fault_handler = None

----------------------------------------------------------------------------
\* C20: when a handler call returns, the handler that was running is the
\* one installed, also when the handler called set_handler during the call
\* (the handler it passed is gone); the read/write that faulted, if its
\* condition is still unresolved, dispatches its next fault to that same
\* handler, and the installed handler changes no other way than by a
\* set_handler call, a dispatch or a return.
C20_NestedSetHandlerDiscarded ==
    [][/\ ReturnStep
             => /\ page_fault_handler' = Top.h
                /\ Top.h \in Handlers
                /\ stack' = Pop
                /\ stack'[Len(stack')].kind \in Accesses
       /\ \A a \in InRangeAddrs, kind \in Accesses :
             (RetryOf(kind, a) /\ ~Resolved(kind, a))
                => /\ last.op = "return"
                   /\ stack'[Len(stack')].kind = "handler"
                   /\ stack'[Len(stack')].h = page_fault_handler
       /\ (Acted /\ last'.op \notin {"set_handler", "fault", "return"})
             => page_fault_handler' = page_fault_handler]_vars

\* A running handler has called set_handler with another handler than
\* itself and can return.
C20_Witness ==
    /\ ~panicked
    /\ stack # << >>
    /\ Top.kind = "handler"
    /\ Top.installs
    /\ page_fault_handler # None
    /\ page_fault_handler # Top.h
    /\ last.op = "set_handler"

====
